---- MODULE Spec2Model ----
(***************************************************************************)
(* Model of app.py: the "vessel - spill" analysis script.  One run of the  *)
(* script loads the spill polygons and the AIS fixes, stops when a set is  *)
(* missing or empty, joins fixes to the polygons they lie within, filters  *)
(* the pairs by the time window of the slider and derives the report and   *)
(* the ranking tables.  Moving the slider reruns the script.               *)
(*                                                                         *)
(* A data frame is a record [isNone, columns, rows]: rows is the sequence  *)
(* of its rows in frame order, every row carrying its index label.         *)
(* Times are whole hours.  A polygon is an axis-parallel rectangle and a   *)
(* fix position a grid point.                                              *)
(***************************************************************************)
EXTENDS Integers, Sequences, FiniteSets, TLC

\* ---------------------------------------------------------------- bounds
MaxSpills == 2
MaxFixes == 2
MaxTime == 3
MaxWindow == 2
MaxMmsi == 2

\* ------------------------------------------------------ program constants
SliderMin == 1
DefaultWindow == 24
NaT == 0

NaN == "NaN"
Windows == (SliderMin..MaxWindow) \cup {DefaultWindow}

\* ------------------------------------------------------------ input data
\* The polygon of the i-th feature of the GeoJSON file: consecutive
\* features overlap, so a fix can lie inside one polygon, inside two, or
\* on an edge.
Poly(i) == [x1 |-> i - 1, x2 |-> i + 2, y1 |-> 0, y2 |-> 2]

Positions == {<<1, 1>>, <<2, 1>>, <<MaxSpills + 2, 1>>}
DetectionDates == {MaxTime - 1, MaxTime}
FixTimes == {1, MaxTime}
OptionalCols == {"vessel_name", "VesselType"}
TypeOrder == <<"cargo", "tanker">>
TypeOf(m) == IF m = 1 THEN "cargo" ELSE "tanker"

SeqsUpTo(S, n) == UNION {[1..k -> S] : k \in 0..n}

SpillFeature(i, d) ==
    [spill_id |-> i, geometry |-> Poly(i), detection_date |-> d, area_sq_km |-> i]

\* A GeoJSON file: unreadable, without the required fields, or a list of
\* features whose dates parse to an hour or to NaT.
SpillFiles ==
    {[status |-> s, rows |-> <<>>] : s \in {"missing", "nocols"}}
    \cup {[status |-> "ok", rows |-> [i \in DOMAIN ds |-> SpillFeature(i, ds[i])]] :
            ds \in SeqsUpTo(DetectionDates \cup {NaT}, MaxSpills)}

\* The CSV rows under a given set of optional columns.  A row whose
\* timestamp does not parse is dropped by the loader whatever else it holds,
\* so one such row stands for all of them.
AisRows(cols) ==
    {[mmsi |-> 1, geometry |-> <<1, 1>>, timestamp |-> NaT,
      vessel_name |-> NaN, VesselType |-> NaN]}
    \cup {[mmsi |-> m, geometry |-> p, timestamp |-> t, vessel_name |-> n,
           VesselType |-> IF "VesselType" \in cols THEN TypeOf(m) ELSE NaN] :
            m \in 1..MaxMmsi, p \in Positions, t \in FixTimes,
            n \in IF "vessel_name" \in cols THEN {NaN, "A"} ELSE {NaN}}

AisFiles ==
    {[status |-> s, cols |-> {}, rows |-> <<>>] : s \in {"missing", "nocols"}}
    \cup UNION {{[status |-> "ok", cols |-> c, rows |-> r] :
                    r \in SeqsUpTo(AisRows(c), MaxFixes)} : c \in SUBSET OptionalCols}

\* ------------------------------------------------------------ data frames
None == [isNone |-> TRUE, columns |-> {}, rows |-> <<>>]
GeoDataFrame == [isNone |-> FALSE, columns |-> {}, rows |-> <<>>]
Frame(cols, rows) == [isNone |-> FALSE, columns |-> cols, rows |-> rows]
empty(df) == df.rows = <<>>

SpillCols == {"spill_id", "area_sq_km", "detection_date", "geometry"}
AisCols(file) == {"mmsi", "timestamp", "geometry"} \cup file.cols

VARIABLES spills_file, ais_file, time_window_hours, pc, msgs,
          spills_gdf, vessels_gdf, candidates_df, report_df,
          unique_incidents, ship_names, ship_incident_counts, ship_area_sum,
          spill_candidate_counts, prime_suspects_df, vessel_type_analysis

vars == <<spills_file, ais_file, time_window_hours, pc, msgs,
          spills_gdf, vessels_gdf, candidates_df, report_df,
          unique_incidents, ship_names, ship_incident_counts, ship_area_sum,
          spill_candidate_counts, prime_suspects_df, vessel_type_analysis>>


\* ------------------------------------------------------- frame operations
WithIndex(rows) == [i \in DOMAIN rows |-> [index |-> i] @@ rows[i]]

\* The values of a row in the columns of subset.
KeyOf(r, subset) == [c \in subset |-> r[c]]

\* drop_duplicates(keep=False): every row whose key occurs twice goes.
KeepFirst_keepFalse(rows, subset, i) ==
    SelectSeq(rows, LAMBDA r :
        Cardinality({j \in 1..Len(rows) : KeyOf(rows[j], subset) = KeyOf(r, subset)}) = 1)

\* DataFrame.drop_duplicates(subset=...): the first row of every key stays.
RECURSIVE KeepFirst(_, _, _)
KeepFirst(rows, subset, i) ==
    IF i > Len(rows) THEN <<>>
    ELSE (IF \E j \in 1..(i - 1) : KeyOf(rows[j], subset) = KeyOf(rows[i], subset)
          THEN <<>> ELSE <<rows[i]>>) \o KeepFirst(rows, subset, i + 1)

drop_duplicates(df, subset) ==
    IF empty(df) THEN df ELSE [df EXCEPT !.rows = KeepFirst(df.rows, subset, 1)]

\* DataFrame.sort_values(by, ascending=False) of a short frame: a stable
\* insertion sort, rows of equal key keep their order.
RECURSIVE SortDescFrom(_, _, _, _)
SortDescFrom(rows, by, i, acc) ==
    IF i > Len(rows) THEN acc
    ELSE LET r == rows[i]
             k == Cardinality({j \in 1..Len(acc) : acc[j][by] >= r[by]})
         IN SortDescFrom(rows, by, i + 1,
                SubSeq(acc, 1, k) \o <<r>> \o SubSeq(acc, k + 1, Len(acc)))

sort_values_desc(rows, by) == SortDescFrom(rows, by, 1, <<>>)

\* groupby(by): the groups come in ascending key order, a missing key
\* forms no group.  universe lists the possible keys in ascending order.
GroupKeys(rows, by, universe) ==
    SelectSeq(universe, LAMBDA k : \E i \in 1..Len(rows) : rows[i][by] = k)

Group(rows, by, k) == SelectSeq(rows, LAMBDA r : r[by] = k)

RECURSIVE SumArea(_, _)
SumArea(rows, i) ==
    IF i > Len(rows) THEN 0 ELSE rows[i].area_sq_km + SumArea(rows, i + 1)

Range(f) == {f[i] : i \in DOMAIN f}

RECURSIVE Concat(_, _)
Concat(seqs, i) == IF i > Len(seqs) THEN <<>> ELSE seqs[i] \o Concat(seqs, i + 1)

MmsiOrder == [i \in 1..MaxMmsi |-> i]
SpillOrder == [i \in 1..MaxSpills |-> i]

\* pd.merge(left, right, on='mmsi', how='left'): every left row once per
\* right row of its mmsi, in left order; once with no name when none has it.
MergeLeftRow(l, right) ==
    LET hits == SelectSeq(right, LAMBDA r : r.mmsi = l.mmsi)
    IN IF hits = <<>> THEN <<l @@ [vessel_name |-> NaN]>>
       ELSE [k \in 1..Len(hits) |-> l @@ [vessel_name |-> hits[k].vessel_name]]

merge_left(left, right) ==
    Concat([i \in 1..Len(left) |-> MergeLeftRow(left[i], right)], 1)

\* ------------------------------------------------------------- the loaders
load_spills_data(file) ==
    IF file.status = "missing"
    THEN [value |-> None, msgs |-> <<"info_load_spills", "error_read_geojson">>]
    ELSE IF file.status = "nocols"
    THEN [value |-> None, msgs |-> <<"info_load_spills", "error_missing_fields">>]
    ELSE LET parsed == WithIndex(file.rows)
             kept == SelectSeq(parsed, LAMBDA r : r.detection_date # NaT)
             warn == IF Len(kept) < Len(parsed) THEN <<"warning_bad_dates">> ELSE <<>>
             head == <<"info_load_spills", "success_date_format">> \o warn
         IN IF kept = <<>>
            THEN [value |-> None, msgs |-> head \o <<"error_no_spills_left">>]
            ELSE [value |-> Frame(SpillCols, kept),
                  msgs |-> head \o <<"success_spills_loaded">>]

load_ais_data(file) ==
    IF file.status = "missing"
    THEN [value |-> None, msgs |-> <<"info_load_ais", "error_read_csv">>]
    ELSE IF file.status = "nocols"
    THEN [value |-> None, msgs |-> <<"info_load_ais", "error_missing_columns">>]
    ELSE LET parsed == WithIndex(file.rows)
             kept == SelectSeq(parsed, LAMBDA r : r.timestamp # NaT)
         IN [value |-> Frame(AisCols(file), kept),
             msgs |-> <<"info_load_ais", "success_ais_loaded">>]

\* ----------------------------------------------------------- the matching
\* shapely's within: the point lies in the interior of the polygon.
Within(p, poly) ==
    /\ poly.x1 < p[1] /\ p[1] < poly.x2
    /\ poly.y1 < p[2] /\ p[2] < poly.y2

JoinRow(v, s) ==
    [index |-> v.index, mmsi |-> v.mmsi, geometry |-> v.geometry,
     timestamp |-> v.timestamp, vessel_name |-> v.vessel_name,
     VesselType |-> v.VesselType, index_right |-> s.index,
     spill_id |-> s.spill_id, detection_date |-> s.detection_date,
     area_sq_km |-> s.area_sq_km, time_to_detection |-> NaT]

\* gpd.sjoin(vessels, spills, predicate='within'): an inner join, one row
\* per (fix, polygon) pair, labelled by the index of the fix.
sjoin(vessels, spills) ==
    LET MatchesOf(v) ==
            LET hits == SelectSeq(spills.rows, LAMBDA s : Within(v.geometry, s.geometry))
            IN [k \in 1..Len(hits) |-> JoinRow(v, hits[k])]
    IN Frame((vessels.columns \cup {"index_right"}) \cup (spills.columns \ {"geometry"}),
             Concat([i \in 1..Len(vessels.rows) |-> MatchesOf(vessels.rows[i])], 1))

\* The upper bound taken strictly: a fix at the hour of detection is lost.
InWindow_strict(r, w) ==
    /\ r.timestamp < r.detection_date
    /\ r.timestamp >= r.detection_date - w

\* The lower bound turned around: only fixes older than the window pass.
InWindow_flipped(r, w) ==
    /\ r.timestamp <= r.detection_date
    /\ r.timestamp <= r.detection_date - w

InWindow(r, w) ==
    /\ r.timestamp <= r.detection_date
    /\ r.timestamp >= r.detection_date - w

find_candidates(spills, vessels, w) ==
    IF spills.isNone \/ vessels.isNone THEN GeoDataFrame
    ELSE LET candidates == sjoin(vessels, spills)
         IN IF empty(candidates) THEN GeoDataFrame
            ELSE [candidates EXCEPT !.rows = SelectSeq(@, LAMBDA r : InWindow(r, w))]


\* ------------------------------------------------------------- the script
Init ==
    /\ spills_file \in SpillFiles
    /\ ais_file \in AisFiles
    /\ time_window_hours = DefaultWindow
    /\ pc = "load_spills"
    /\ msgs = <<>>
    /\ spills_gdf = None
    /\ vessels_gdf = None
    /\ candidates_df = None
    /\ report_df = None
    /\ unique_incidents = None
    /\ ship_names = <<>>
    /\ ship_incident_counts = <<>>
    /\ ship_area_sum = <<>>
    /\ spill_candidate_counts = <<>>
    /\ prime_suspects_df = None
    /\ vessel_type_analysis = <<>>

tables == <<report_df, unique_incidents, ship_names, ship_incident_counts,
            ship_area_sum, spill_candidate_counts, prime_suspects_df,
            vessel_type_analysis>>

LoadSpills ==
    /\ pc = "load_spills"
    /\ LET res == load_spills_data(spills_file)
       IN /\ spills_gdf' = res.value
          /\ msgs' = msgs \o res.msgs
    /\ pc' = "load_ais"
    /\ UNCHANGED <<spills_file, ais_file, time_window_hours, vessels_gdf,
                   candidates_df, tables>>

LoadAis ==
    /\ pc = "load_ais"
    /\ LET res == load_ais_data(ais_file)
       IN /\ vessels_gdf' = res.value
          /\ msgs' = msgs \o res.msgs
    /\ pc' = "check"
    /\ UNCHANGED <<spills_file, ais_file, time_window_hours, spills_gdf,
                   candidates_df, tables>>

\* The guard looking at the spill set alone.
MustStop_spillsOnly(spills, vessels) == spills.isNone \/ empty(spills)

\* The guard in front of the analysis: st.error and st.stop.
MustStop(spills, vessels) ==
    spills.isNone \/ vessels.isNone \/ empty(spills) \/ empty(vessels)

MainCheck ==
    /\ pc = "check"
    /\ IF MustStop(spills_gdf, vessels_gdf)
       THEN /\ msgs' = Append(msgs, "error_analysis_stopped")
            /\ pc' = "stopped"
       ELSE /\ msgs' = msgs
            /\ pc' = "container"
    /\ UNCHANGED <<spills_file, ais_file, time_window_hours, spills_gdf,
                   vessels_gdf, candidates_df, tables>>

IncidentKey == {"spill_id", "mmsi"}

\* The map and table container: the matching, then the candidate table.
Container ==
    /\ pc = "container"
    /\ candidates_df' = find_candidates(spills_gdf, vessels_gdf, time_window_hours)
    /\ IF empty(candidates_df')
       THEN /\ msgs' = Append(msgs, "info_no_candidates")
            /\ report_df' = report_df
       ELSE /\ msgs' = msgs
            /\ report_df' = drop_duplicates(candidates_df', IncidentKey)
    /\ pc' = "tab1"
    /\ UNCHANGED <<spills_file, ais_file, time_window_hours, spills_gdf,
                   vessels_gdf, unique_incidents, ship_names,
                   ship_incident_counts, ship_area_sum, spill_candidate_counts,
                   prime_suspects_df, vessel_type_analysis>>

NameRow(r) == [mmsi |-> r.mmsi, vessel_name |-> r.vessel_name]

\* The counts left in group order, the sort forgotten.
incident_counts_unsorted(rows) ==
    LET keys == GroupKeys(rows, "mmsi", MmsiOrder)
    IN [i \in 1..Len(keys) |->
           [mmsi |-> keys[i], incident_count |-> Len(Group(rows, "mmsi", keys[i]))]]

incident_counts(rows) ==
    LET keys == GroupKeys(rows, "mmsi", MmsiOrder)
    IN sort_values_desc(
          [i \in 1..Len(keys) |->
              [mmsi |-> keys[i], incident_count |-> Len(Group(rows, "mmsi", keys[i]))]],
          "incident_count")

area_sums(rows) ==
    LET keys == GroupKeys(rows, "mmsi", MmsiOrder)
    IN sort_values_desc(
          [i \in 1..Len(keys) |->
              [mmsi |-> keys[i],
               total_area_sq_km |-> SumArea(Group(rows, "mmsi", keys[i]), 1)]],
          "total_area_sq_km")

names_of(rows) ==
    KeepFirst([i \in 1..Len(rows) |-> NameRow(rows[i])], {"mmsi", "vessel_name"}, 1)

with_names(ranking, incidents, names) ==
    IF "vessel_name" \in incidents.columns THEN merge_left(ranking, names) ELSE ranking

\* Tab 1: the rankings by vessel.  groupby('mmsi') raises KeyError on a
\* frame without that column, and the script ends there.
Tab1 ==
    /\ pc = "tab1"
    /\ unique_incidents' = drop_duplicates(candidates_df, IncidentKey)
    /\ IF "mmsi" \notin unique_incidents'.columns
       THEN /\ msgs' = Append(msgs, "exception_KeyError")
            /\ pc' = "crashed"
            /\ UNCHANGED <<ship_names, ship_incident_counts, ship_area_sum>>
       ELSE /\ msgs' = msgs
            /\ pc' = "tab3"
            /\ ship_names' = names_of(unique_incidents'.rows)
            /\ ship_incident_counts' =
                   with_names(incident_counts(unique_incidents'.rows),
                              unique_incidents', ship_names')
            /\ ship_area_sum' =
                   with_names(area_sums(unique_incidents'.rows),
                              unique_incidents', ship_names')
    /\ UNCHANGED <<spills_file, ais_file, time_window_hours, spills_gdf,
                   vessels_gdf, candidates_df, report_df, spill_candidate_counts,
                   prime_suspects_df, vessel_type_analysis>>

candidate_counts(rows) ==
    LET keys == GroupKeys(rows, "spill_id", SpillOrder)
    IN sort_values_desc(
          [i \in 1..Len(keys) |->
              [spill_id |-> keys[i],
               candidate_count |->
                   Cardinality({r.mmsi : r \in Range(Group(rows, "spill_id", keys[i]))})]],
          "candidate_count")

\* candidates_df['time_to_detection'] = detection_date - timestamp
with_time_to_detection(df) ==
    [df EXCEPT !.columns = @ \cup {"time_to_detection"},
               !.rows = [i \in 1..Len(df.rows) |->
                   [df.rows[i] EXCEPT !.time_to_detection =
                       df.rows[i].detection_date - df.rows[i].timestamp]]]

\* groupby('spill_id')['time_to_detection'].idxmin(): per spill, the index
\* label of the first row of least time_to_detection.
idxmin(rows) ==
    LET keys == GroupKeys(rows, "spill_id", SpillOrder)
        First(g) == LET least == CHOOSE i \in 1..Len(g) :
                            /\ \A j \in 1..Len(g) :
                                   g[i].time_to_detection <= g[j].time_to_detection
                            /\ \A j \in 1..(i - 1) :
                                   g[j].time_to_detection > g[i].time_to_detection
                    IN g[least].index
    IN [i \in 1..Len(keys) |-> First(Group(rows, "spill_id", keys[i]))]

\* DataFrame.loc[labels]: for every label in turn, all rows bearing it.
loc(df, labels) ==
    [df EXCEPT !.rows =
        Concat([i \in 1..Len(labels) |->
                   SelectSeq(df.rows, LAMBDA r : r.index = labels[i])], 1)]

type_analysis(rows) ==
    LET keys == GroupKeys(rows, "VesselType", TypeOrder)
    IN sort_values_desc(
          [i \in 1..Len(keys) |->
              [VesselType |-> keys[i],
               incident_count |-> Len(Group(rows, "VesselType", keys[i])),
               total_area_sq_km |-> SumArea(Group(rows, "VesselType", keys[i]), 1)]],
          "incident_count")

\* Tab 3: the rankings by spill, the prime suspects, the vessel types.
Tab3 ==
    /\ pc = "tab3"
    /\ spill_candidate_counts' = candidate_counts(candidates_df.rows)
    /\ candidates_df' = with_time_to_detection(candidates_df)
    /\ prime_suspects_df' = loc(candidates_df', idxmin(candidates_df'.rows))
    /\ vessel_type_analysis' =
           IF "VesselType" \in unique_incidents.columns
           THEN type_analysis(unique_incidents.rows)
           ELSE vessel_type_analysis
    /\ pc' = "done"
    /\ UNCHANGED <<spills_file, ais_file, time_window_hours, msgs, spills_gdf,
                   vessels_gdf, report_df, unique_incidents, ship_names,
                   ship_incident_counts, ship_area_sum>>

\* The user moves the slider: the script runs again from the top.
Rerun ==
    /\ pc \in {"stopped", "crashed", "done"}
    /\ \E w \in Windows \ {time_window_hours} : time_window_hours' = w
    /\ pc' = "load_spills"
    /\ msgs' = <<>>
    /\ spills_gdf' = None
    /\ vessels_gdf' = None
    /\ candidates_df' = None
    /\ report_df' = None
    /\ unique_incidents' = None
    /\ ship_names' = <<>>
    /\ ship_incident_counts' = <<>>
    /\ ship_area_sum' = <<>>
    /\ spill_candidate_counts' = <<>>
    /\ prime_suspects_df' = None
    /\ vessel_type_analysis' = <<>>
    /\ UNCHANGED <<spills_file, ais_file>>

Next ==
    \/ LoadSpills
    \/ LoadAis
    \/ MainCheck
    \/ Container
    \/ Tab1
    \/ Tab3
    \/ Rerun

Spec == Init /\ [][Next]_vars

TypeOK == pc \in {"load_spills", "load_ais", "check", "stopped", "container",
                  "tab1", "tab3", "crashed", "done"}


\* ------------------------------------------------------------ the claims
RowsOf(df) == Range(df.rows)
Matched == pc \in {"tab1", "tab3", "crashed", "done"}
Aggregated == pc \in {"tab3", "done"}
PairsOf(df) == {<<r.index, r.index_right>> : r \in RowsOf(df)}
CandidateIds(df) == {<<r.spill_id, r.mmsi>> : r \in RowsOf(df)}

\* The (fix, spill) pairs of the loaded sets that satisfy both predicates
\* of a candidate under window w.
ExpectedPairs(w) ==
    {<<p[1].index, p[2].index>> :
        p \in {q \in RowsOf(vessels_gdf) \X RowsOf(spills_gdf) :
                 /\ Within(q[1].geometry, q[2].geometry)
                 /\ q[2].detection_date - w <= q[1].timestamp
                 /\ q[1].timestamp <= q[2].detection_date}}

\* C1: find_candidates returns the pair (F, S) exactly when F lies within
\* the polygon of S and detection_date - w <= timestamp <= detection_date,
\* each such pair once and carrying the fields of F and of S; this for the
\* window of the slider and for every window from 0 on.
C1_CandidatesIffWithinAndInWindow ==
    Matched =>
        /\ PairsOf(candidates_df) = ExpectedPairs(time_window_hours)
        /\ Len(candidates_df.rows) = Cardinality(PairsOf(candidates_df))
        /\ \A r \in RowsOf(candidates_df) :
              /\ \E f \in RowsOf(vessels_gdf) :
                    /\ f.index = r.index /\ f.mmsi = r.mmsi
                    /\ f.timestamp = r.timestamp /\ f.geometry = r.geometry
              /\ \E sp \in RowsOf(spills_gdf) :
                    /\ sp.index = r.index_right /\ sp.spill_id = r.spill_id
                    /\ sp.detection_date = r.detection_date
        /\ \A w \in 0..MaxWindow :
              PairsOf(find_candidates(spills_gdf, vessels_gdf, w)) = ExpectedPairs(w)

\* A run where one fix is a candidate, another lies within a polygon but
\* outside the window, and a fix lies within no polygon at all.
C1_Witness ==
    /\ Matched
    /\ candidates_df.rows # <<>>
    /\ \E q \in RowsOf(vessels_gdf) \X RowsOf(spills_gdf) :
          /\ Within(q[1].geometry, q[2].geometry)
          /\ <<q[1].index, q[2].index>> \notin PairsOf(candidates_df)
    /\ \E f \in RowsOf(vessels_gdf) :
          \A sp \in RowsOf(spills_gdf) : ~Within(f.geometry, sp.geometry)

\* C2: the prime-suspect selection has exactly one row per spill_id of the
\* candidate set, a candidate of that spill of non-negative and least
\* time_to_detection, also when a fix lies inside several polygons.
C2_OnePrimeSuspectPerSpill ==
    pc = "done" =>
        \A id \in {r.spill_id : r \in RowsOf(candidates_df)} :
            /\ Cardinality({i \in 1..Len(prime_suspects_df.rows) :
                               prime_suspects_df.rows[i].spill_id = id}) = 1
            /\ \A p \in RowsOf(prime_suspects_df) :
                  p.spill_id = id =>
                     /\ p \in RowsOf(candidates_df)
                     /\ p.time_to_detection >= 0
                     /\ \A c \in RowsOf(candidates_df) :
                           c.spill_id = id => p.time_to_detection <= c.time_to_detection

TablesEmpty ==
    /\ empty(unique_incidents)
    /\ ship_incident_counts = <<>>
    /\ ship_area_sum = <<>>
    /\ spill_candidate_counts = <<>>
    /\ empty(prime_suspects_df)
    /\ vessel_type_analysis = <<>>

\* C3: on an empty candidate set every aggregation step yields an empty
\* result and none fails, whether the join found no pair or the time filter
\* removed all of them.
C3_EmptyCandidatesNeverFail ==
    (pc \in {"tab3", "crashed", "done"} /\ empty(candidates_df)) =>
        /\ pc # "crashed"
        /\ pc = "done" => TablesEmpty

\* C4: the candidates of a run are among those of every wider window and
\* include those of every narrower one.
C4_WindowMonotone ==
    Matched =>
        \A w \in (0..MaxWindow) \cup Windows :
            LET other == PairsOf(find_candidates(spills_gdf, vessels_gdf, w))
            IN /\ w <= time_window_hours => other \subseteq PairsOf(candidates_df)
               /\ time_window_hours <= w => PairsOf(candidates_df) \subseteq other

\* A run that has a candidate which a narrower window does not have.
C4_Witness ==
    /\ Matched
    /\ \E w \in 0..MaxWindow :
          /\ w < time_window_hours
          /\ PairsOf(find_candidates(spills_gdf, vessels_gdf, w)) # PairsOf(candidates_df)

DedupLaw(src, out) ==
    /\ \A i, j \in 1..Len(out.rows) :
          (out.rows[i].spill_id = out.rows[j].spill_id
             /\ out.rows[i].mmsi = out.rows[j].mmsi) => i = j
    /\ CandidateIds(out) = CandidateIds(src)

\* C5: the deduplicated incident list (the candidate table and the list the
\* rankings are built on) has every (spill_id, mmsi) pair of the candidate
\* set exactly once.
C5_OneIncidentPerPair ==
    /\ (Matched /\ ~empty(candidates_df)) => DedupLaw(candidates_df, report_df)
    /\ pc \in {"tab3", "crashed", "done"} => DedupLaw(candidates_df, unique_incidents)

\* Two fixes of one vessel are candidates of the same spill.
C5_Witness ==
    /\ pc = "done"
    /\ Len(unique_incidents.rows) < Len(candidates_df.rows)
    /\ \E i, j \in 1..Len(candidates_df.rows) :
          /\ i # j
          /\ candidates_df.rows[i].index # candidates_df.rows[j].index
          /\ candidates_df.rows[i].spill_id = candidates_df.rows[j].spill_id
          /\ candidates_df.rows[i].mmsi = candidates_df.rows[j].mmsi

FinalReport == IF msgs = <<>> THEN "none" ELSE msgs[Len(msgs)]
LoadFailed == spills_file.status # "ok" \/ ais_file.status # "ok"
LoadedButEmpty ==
    /\ ~LoadFailed
    /\ \/ \A i \in DOMAIN spills_file.rows : spills_file.rows[i].detection_date = NaT
       \/ \A i \in DOMAIN ais_file.rows : ais_file.rows[i].timestamp = NaT

\* The report a run of the script ends with on the given files.
ReportOn(sf, af) ==
    IF MustStop(load_spills_data(sf).value, load_ais_data(af).value)
    THEN "error_analysis_stopped" ELSE "analysis"

\* C6: a run whose sets loaded but one of them is empty does not end in the
\* report the run would end in had one of its files failed to load.
C6_EmptyReportedUnlikeFailure ==
    (pc = "stopped" /\ LoadedButEmpty) =>
        \A st \in {"missing", "nocols"} :
            /\ FinalReport # ReportOn([spills_file EXCEPT !.status = st], ais_file)
            /\ FinalReport # ReportOn(spills_file, [ais_file EXCEPT !.status = st])

\* C7: when a set failed to load, the run never reaches the matching or
\* any later step and computes nothing; it stops on the error report.
C7_NoMatchingAfterLoadFailure ==
    LoadFailed =>
        /\ pc \in {"load_spills", "load_ais", "check", "stopped"}
        /\ candidates_df = None
        /\ TablesEmpty /\ report_df = None
        /\ pc = "stopped" => FinalReport = "error_analysis_stopped"

\* A run stopped after the AIS file alone failed to load.
C7_Witness ==
    /\ pc = "stopped"
    /\ ais_file.status # "ok"
    /\ ~spills_gdf.isNone

\* C8: after all aggregations the candidate set is what find_candidates
\* returned, same rows and same fields.
C8_AggregationsLeaveInput ==
    pc = "done" =>
        candidates_df = find_candidates(spills_gdf, vessels_gdf, time_window_hours)

RankedOnce(table) ==
    /\ \A m \in {r.mmsi : r \in RowsOf(unique_incidents)} :
          Cardinality({i \in 1..Len(table) : table[i].mmsi = m}) = 1
    /\ \A i \in 1..Len(table) : table[i].mmsi \in {r.mmsi : r \in RowsOf(unique_incidents)}

\* C9: after the join of the names both rankings have exactly one row per
\* mmsi of the ranking, none dropped and none duplicated.
C9_OneRankingRowPerVessel ==
    Aggregated => RankedOnce(ship_incident_counts) /\ RankedOnce(ship_area_sum)

\* C10: the incident ranking lists exactly the vessels of the candidate set,
\* each with the number of distinct spills it is a candidate of, in
\* non-increasing order of that number.
C10_IncidentRanking ==
    Aggregated =>
        /\ {ship_incident_counts[i].mmsi : i \in 1..Len(ship_incident_counts)}
              = {r.mmsi : r \in RowsOf(candidates_df)}
        /\ \A i \in 1..Len(ship_incident_counts) :
              ship_incident_counts[i].incident_count =
                 Cardinality({r.spill_id : r \in
                     {c \in RowsOf(candidates_df) : c.mmsi = ship_incident_counts[i].mmsi}})
        /\ \A i, j \in 1..Len(ship_incident_counts) :
              i < j => ship_incident_counts[i].incident_count
                          >= ship_incident_counts[j].incident_count

\* Two vessels of different counts, ranked against their group order, one
\* of them with a count that is not its number of matching fixes.
C10_Witness ==
    /\ pc = "done"
    /\ \E i, j \in 1..Len(ship_incident_counts) :
          /\ i < j
          /\ ship_incident_counts[i].mmsi > ship_incident_counts[j].mmsi
          /\ ship_incident_counts[i].incident_count > ship_incident_counts[j].incident_count
    /\ \E i \in 1..Len(ship_incident_counts) :
          ship_incident_counts[i].incident_count #
             Cardinality({r.index : r \in
                 {c \in RowsOf(candidates_df) : c.mmsi = ship_incident_counts[i].mmsi}})

====
